---- MODULE Spec2Model ----
(***************************************************************************)
(* State-machine model of mpy/metview.py: the Metview session lifecycle    *)
(* (MetviewInvoker and the module-level library load) and the marshalling  *)
(* layer (push_arg, Request, _call_function, value_from_metview, make).    *)
(***************************************************************************)
EXTENDS Integers, Sequences, FiniteSets, TLC

VARIABLES
    pc,                 \* position of the host in the module's top-level code
    environ,            \* os.environ: the set of variable names that are set
    persistent_session, \* mi.persistent_session
    metview_replied,    \* mi.metview_replied
    has_info_section,   \* mi has the attribute info_section
    info_section,       \* mi.info_section: the set of keys of the mapping
    handler,            \* a handler for SIGUSR1 is installed (signal.signal)
    engine,             \* the engine process: "none", "launched", "written",
                        \* "ready" (readiness signalled) or "terminated"
    settings_file,      \* content of the temporary settings file
    now,                \* time.time(), in seconds
    wait_start,         \* wait_start of __init__
    handshake,          \* line 64 found metview_replied true
    atexit_registered,  \* atexit.register(self.destroy) was executed
    destroy_calls,      \* explicit calls of mi.destroy() made so far
    kill_attempts,      \* calls of os.kill(metview_pid, SIGUSR1)
    kills,              \* of these, the calls that delivered the signal
    error,              \* the exception that left the last top-level operation
    lib,                \* "unloaded", or "initialised" once lib.p_init() ran
    stack,              \* the engine's argument stack (sequence of frames)
    ffi,                \* the foreign calls made by the last host operation
    result,             \* outcome of the last binding call
    held,               \* the value the user's script holds in a variable
    call                \* the last binding call made: its name and arguments, the
                        \* stack it found, and the subscript it came from

session_vars == <<pc, environ, persistent_session, metview_replied, has_info_section,
                  info_section, handler, engine, settings_file, now,
                  wait_start, handshake, atexit_registered, destroy_calls,
                  kill_attempts, kills, error, lib>>

call_vars == <<stack, ffi, result, held, call>>

vars == <<session_vars, call_vars>>

(***************************************************************************)
(* Bounds of the model and constants of the program.                       *)
(***************************************************************************)
\* self.metview_startup_timeout = 5  # seconds
metview_startup_timeout == 5

\* the longest time, in seconds, one pass of the polling loop may take
MaxSleep == 2

\* explicit calls of mi.destroy() by the user's script
MaxDestroy == 2

\* frames left on the argument stack beyond which the script makes no call
MaxResidue == 1

\* positional arguments of a call
MaxArgs == 2

\* keyword arguments of a call
MaxKw == 2

\* nesting depth and length of the lists passed
MaxDepth == 2

MaxLen == 2

\* largest subscript used
MaxIndex == 2

(***************************************************************************)
(* Host (Python) values.  A dict is the sequence of its items in insertion *)
(* order; a Value's val_pointer is the engine value it points to.          *)
(***************************************************************************)
None == [kind |-> "NoneType"]

PyInt(n) == [kind |-> "int", num |-> n]

PyFloat(n) == [kind |-> "float", num |-> n]

PyBool(b) == [kind |-> "bool", b |-> b]

PyStr(s) == [kind |-> "str", s |-> s]

PyList(elems) == [kind |-> "list", elems |-> elems]

PyDict(items) == [kind |-> "dict", items |-> items]

Item(k, v) == [k |-> k, v |-> v]

\* an object of a class push_arg does not know
Other == [kind |-> "object"]

(***************************************************************************)
(* The settings file: the sections it holds, the keys of its Environment   *)
(* section (lower case, as configparser reads them) and of its Info        *)
(* section.  NamedTemporaryFile creates it empty; the engine writes it.    *)
(***************************************************************************)
EmptyFile == [sections |-> {}, env |-> {}, info |-> {}]

InfoKeys == {"EVENT_PID", "METVIEW_LIB"}

SettingsFiles ==
    { [sections |-> s, env |-> {"metview_dir"},
       info |-> IF "Info" \in s THEN i ELSE {}] :
        s \in SUBSET {"Environment", "Info"}, i \in SUBSET InfoKeys }

\* envar.upper()
upper(envar) == IF envar = "metview_dir" THEN "METVIEW_DIR" ELSE envar

Init ==
    /\ pc = "import"
    /\ environ \in SUBSET {"METVIEW_TITLE_PROD", "METVIEW_LIB"}
    /\ persistent_session = FALSE
    /\ metview_replied = FALSE
    /\ has_info_section = FALSE
    /\ info_section = {}
    /\ handler = FALSE
    /\ engine = "none"
    /\ settings_file = EmptyFile
    /\ now = 0
    /\ wait_start = 0
    /\ handshake = FALSE
    /\ atexit_registered = FALSE
    /\ destroy_calls = 0
    /\ kill_attempts = 0
    /\ kills = 0
    /\ error = "none"
    /\ lib = "unloaded"
    /\ stack = <<>>
    /\ ffi = <<>>
    /\ result = [exc |-> [type |-> "none"], val |-> None]
    /\ held = None
    /\ call = [name |-> "", args |-> <<>>, kwargs |-> <<>>, base |-> <<>>,
               subscript |-> None]

\* InitPersistent without its return: __init__ goes on to start an engine
InitPersistent_NoReturn ==
    /\ pc = "import"
    /\ "METVIEW_TITLE_PROD" \in environ
    /\ persistent_session' = TRUE
    /\ info_section' = {"METVIEW_LIB"}
    /\ has_info_section' = TRUE
    /\ handler' = TRUE
    /\ pc' = "launch"
    /\ UNCHANGED <<environ, metview_replied, engine, settings_file, now,
                    wait_start, handshake, atexit_registered, destroy_calls,
                    kill_attempts, kills, error, lib, call_vars>>

(***************************************************************************)
(* MetviewInvoker.__init__, in a running Metview session (lines 35-39).    *)
(* os.environ['METVIEW_LIB'] raises KeyError when the variable is not set. *)
(***************************************************************************)
InitPersistent ==
    /\ pc = "import"
    /\ "METVIEW_TITLE_PROD" \in environ
    /\ persistent_session' = TRUE
    /\ IF "METVIEW_LIB" \in environ
         THEN /\ info_section' = {"METVIEW_LIB"}
              /\ has_info_section' = TRUE
              /\ pc' = "load"
              /\ error' = "none"
         ELSE /\ UNCHANGED <<info_section, has_info_section>>
              /\ pc' = "import_failed"
              /\ error' = "KeyError"
    /\ UNCHANGED <<environ, metview_replied, handler, engine, settings_file, now,
                    wait_start, handshake, atexit_registered, destroy_calls,
                    kill_attempts, kills, lib, call_vars>>

\* __init__ that launches the engine without installing the SIGUSR1 handler
InstallHandler_NoHandler ==
    /\ pc = "import"
    /\ "METVIEW_TITLE_PROD" \notin environ
    /\ persistent_session' = FALSE
    /\ metview_replied' = FALSE
    /\ pc' = "launch"
    /\ UNCHANGED <<environ, has_info_section, info_section, handler, engine,
                    settings_file, now, wait_start, handshake, atexit_registered,
                    destroy_calls, kill_attempts, kills, error, lib, call_vars>>

(***************************************************************************)
(* __init__, lines 41-54: the flags are set and the SIGUSR1 handler is     *)
(* installed.                                                              *)
(***************************************************************************)
InstallHandler ==
    /\ pc = "import"
    /\ "METVIEW_TITLE_PROD" \notin environ
    /\ persistent_session' = FALSE
    /\ metview_replied' = FALSE
    /\ handler' = TRUE
    /\ pc' = "launch"
    /\ UNCHANGED <<environ, has_info_section, info_section, engine, settings_file,
                    now, wait_start, handshake, atexit_registered, destroy_calls,
                    kill_attempts, kills, error, lib, call_vars>>

(***************************************************************************)
(* __init__, lines 57-60: subprocess.Popen starts the engine (or raises    *)
(* OSError when the command cannot be run) and wait_start is taken.        *)
(***************************************************************************)
Launch ==
    /\ pc = "launch"
    /\ \E started \in BOOLEAN :
         IF started
         THEN /\ engine' = "launched"
              /\ wait_start' = now
              /\ pc' = "wait"
              /\ error' = "none"
         ELSE /\ UNCHANGED <<engine, wait_start>>
              /\ pc' = "import_failed"
              /\ error' = "OSError"
    /\ UNCHANGED <<environ, persistent_session, metview_replied, has_info_section,
                    info_section, handler, settings_file, now, handshake,
                    atexit_registered, destroy_calls, kill_attempts, kills, lib,
                    call_vars>>

(***************************************************************************)
(* The engine writes the settings file named on its command line ...       *)
(***************************************************************************)
EngineWriteSettings ==
    /\ engine = "launched"
    /\ pc # "exited"
    /\ \E f \in SettingsFiles : settings_file' = f
    /\ engine' = "written"
    /\ UNCHANGED <<pc, environ, persistent_session, metview_replied, has_info_section,
                    info_section, handler, now, wait_start, handshake,
                    atexit_registered, destroy_calls, kill_attempts, kills, error,
                    lib, call_vars>>

(***************************************************************************)
(* ... and then sends SIGUSR1 to the host, which runs signal_from_metview  *)
(* (lines 90-93).  Without a handler SIGUSR1 terminates the host.          *)
(***************************************************************************)
signal_from_metview ==
    metview_replied' = TRUE

EngineSignal ==
    /\ engine = "written"
    /\ pc # "exited"
    /\ engine' = "ready"
    /\ IF handler
         THEN signal_from_metview /\ UNCHANGED pc
         ELSE pc' = "exited" /\ UNCHANGED metview_replied
    /\ UNCHANGED <<environ, persistent_session, has_info_section, info_section,
                    handler, settings_file, now, wait_start, handshake,
                    atexit_registered, destroy_calls, kill_attempts, kills, error,
                    lib, call_vars>>

\* WaitPoll with <= for <: one more pass once the timeout has passed
WaitPoll_OffByOne ==
    /\ pc = "wait"
    /\ IF ~metview_replied /\ (now - wait_start <= metview_startup_timeout)
         THEN /\ \E d \in 1..MaxSleep : now' = now + d
              /\ UNCHANGED pc
         ELSE /\ pc' = "check"
              /\ UNCHANGED now
    /\ UNCHANGED <<environ, persistent_session, metview_replied, has_info_section,
                    info_section, handler, engine, settings_file, wait_start,
                    handshake, atexit_registered, destroy_calls, kill_attempts,
                    kills, error, lib, call_vars>>

(***************************************************************************)
(* __init__, lines 61-62: one pass of the polling loop.  While Metview has *)
(* not replied and the timeout has not passed the host sleeps, and time    *)
(* moves on; otherwise the loop is left.                                   *)
(***************************************************************************)
WaitPoll ==
    /\ pc = "wait"
    /\ IF ~metview_replied /\ (now - wait_start < metview_startup_timeout)
         THEN /\ \E d \in 1..MaxSleep : now' = now + d
              /\ UNCHANGED pc
         ELSE /\ pc' = "check"
              /\ UNCHANGED now
    /\ UNCHANGED <<environ, persistent_session, metview_replied, has_info_section,
                    info_section, handler, engine, settings_file, wait_start,
                    handshake, atexit_registered, destroy_calls, kill_attempts,
                    kills, error, lib, call_vars>>

\* CheckReplied without the raise: __init__ goes on whether Metview replied or not
CheckReplied_NoRaise ==
    /\ pc = "check"
    /\ pc' = "read"
    /\ handshake' = metview_replied
    /\ UNCHANGED <<environ, persistent_session, metview_replied, has_info_section,
                    info_section, handler, engine, settings_file, now, wait_start,
                    atexit_registered, destroy_calls, kill_attempts, kills, error,
                    lib, call_vars>>

(***************************************************************************)
(* __init__, lines 64-65: the startup-timeout error.                       *)
(***************************************************************************)
CheckReplied ==
    /\ pc = "check"
    /\ IF ~metview_replied
         THEN /\ pc' = "import_failed"
              /\ error' = "timeout"
              /\ UNCHANGED handshake
         ELSE /\ pc' = "read"
              /\ handshake' = TRUE
              /\ UNCHANGED error
    /\ UNCHANGED <<environ, persistent_session, metview_replied, has_info_section,
                    info_section, handler, engine, settings_file, now, wait_start,
                    atexit_registered, destroy_calls, kill_attempts, kills, lib,
                    call_vars>>

(***************************************************************************)
(* read_metview_settings (lines 95-105), called at line 67.  cf.read       *)
(* ignores a file it cannot parse into sections; cf['Environment'] and     *)
(* cf['Info'] raise KeyError for a missing section.  The environment is    *)
(* written before cf['Info'] is looked up.                                 *)
(***************************************************************************)
read_metview_settings ==
    /\ pc = "read"
    /\ IF "Environment" \notin settings_file.sections
         THEN /\ pc' = "import_failed"
              /\ error' = "KeyError"
              /\ UNCHANGED <<environ, info_section, has_info_section>>
         ELSE /\ environ' = environ \cup { upper(e) : e \in settings_file.env }
              /\ IF "Info" \notin settings_file.sections
                   THEN /\ pc' = "import_failed"
                        /\ error' = "KeyError"
                        /\ UNCHANGED <<info_section, has_info_section>>
                   ELSE /\ info_section' = settings_file.info
                        /\ has_info_section' = TRUE
                        /\ pc' = "register"
                        /\ UNCHANGED error
    /\ UNCHANGED <<persistent_session, metview_replied, handler, engine,
                    settings_file, now, wait_start, handshake, atexit_registered,
                    destroy_calls, kill_attempts, kills, lib, call_vars>>

(***************************************************************************)
(* __init__, line 73: atexit.register(self.destroy).                       *)
(***************************************************************************)
Register ==
    /\ pc = "register"
    /\ atexit_registered' = TRUE
    /\ pc' = "load"
    /\ UNCHANGED <<environ, persistent_session, metview_replied, has_info_section,
                    info_section, handler, engine, settings_file, now, wait_start,
                    handshake, destroy_calls, kill_attempts, kills, error, lib,
                    call_vars>>

(***************************************************************************)
(* The module's try block, lines 114-124: mi.info('METVIEW_LIB') raises    *)
(* KeyError when the Info section has no such key, ffi.dlopen raises       *)
(* OSError when the library cannot be loaded, and lib.p_init() is the      *)
(* first foreign call.                                                     *)
(***************************************************************************)
p_init == [f |-> "p_init"]

LoadLibrary ==
    /\ pc = "load"
    /\ IF "METVIEW_LIB" \notin info_section
         THEN /\ pc' = "import_failed"
              /\ error' = "KeyError"
              /\ UNCHANGED <<environ, lib, ffi>>
         ELSE /\ environ' = environ \cup {"LD_LIBRARY_PATH"}
              /\ \E loaded \in BOOLEAN :
                   IF loaded
                   THEN /\ lib' = "initialised"
                        /\ ffi' = <<p_init>>
                        /\ pc' = "ready"
                        /\ UNCHANGED error
                   ELSE /\ pc' = "import_failed"
                        /\ error' = "OSError"
                        /\ UNCHANGED <<lib, ffi>>
    /\ UNCHANGED <<persistent_session, metview_replied, has_info_section,
                    info_section, handler, engine, settings_file, now, wait_start,
                    handshake, atexit_registered, destroy_calls, kill_attempts,
                    kills, stack, result, held, call>>

(***************************************************************************)
(* MetviewInvoker.destroy (lines 75-88).  delivered: os.kill delivers the  *)
(* signal; otherwise it raises and destroy re-raises.  self.info raises    *)
(* KeyError when the Info section has no EVENT_PID.                        *)
\* destroy that prints that the signal could not be sent and returns
destroy_Swallow(delivered) ==
    IF persistent_session
    THEN /\ error' = "none"
         /\ UNCHANGED <<kill_attempts, kills, engine>>
    ELSE IF metview_replied
    THEN IF "EVENT_PID" \notin info_section
         THEN /\ error' = "KeyError"
              /\ UNCHANGED <<kill_attempts, kills, engine>>
         ELSE /\ kill_attempts' = kill_attempts + 1
              /\ error' = "none"
              /\ IF delivered
                   THEN /\ kills' = kills + 1
                        /\ engine' = "terminated"
                   ELSE UNCHANGED <<kills, engine>>
    ELSE /\ error' = "none"
         /\ UNCHANGED <<kill_attempts, kills, engine>>

(***************************************************************************)
destroy(delivered) ==
    IF persistent_session
    THEN /\ error' = "none"
         /\ UNCHANGED <<kill_attempts, kills, engine>>
    ELSE IF metview_replied
    THEN IF "EVENT_PID" \notin info_section
         THEN /\ error' = "KeyError"
              /\ UNCHANGED <<kill_attempts, kills, engine>>
         ELSE /\ kill_attempts' = kill_attempts + 1
              /\ IF delivered
                   THEN /\ kills' = kills + 1
                        /\ engine' = "terminated"
                        /\ error' = "none"
                   ELSE /\ error' = "kill_failed"
                        /\ UNCHANGED <<kills, engine>>
    ELSE /\ error' = "none"
         /\ UNCHANGED <<kill_attempts, kills, engine>>

(***************************************************************************)
(* The user's script calls mi.destroy() itself.                            *)
(***************************************************************************)
Destroy ==
    /\ pc = "ready"
    /\ destroy_calls < MaxDestroy
    /\ destroy_calls' = destroy_calls + 1
    /\ \E delivered \in BOOLEAN : destroy(delivered)
    /\ UNCHANGED <<pc, environ, persistent_session, metview_replied, has_info_section,
                    info_section, handler, settings_file, now, wait_start, handshake,
                    atexit_registered, lib, call_vars>>

(***************************************************************************)
(* The host process exits normally, after the import succeeded or failed:  *)
(* the interpreter runs the functions registered with atexit.              *)
(***************************************************************************)
Exit ==
    /\ pc \in {"ready", "import_failed"}
    /\ pc' = "exited"
    /\ IF atexit_registered
         THEN \E delivered \in BOOLEAN : destroy(delivered)
         ELSE UNCHANGED <<kill_attempts, kills, engine, error>>
    /\ UNCHANGED <<environ, persistent_session, metview_replied, has_info_section,
                    info_section, handler, settings_file, now, wait_start, handshake,
                    atexit_registered, destroy_calls, lib, call_vars>>

SessionNext ==
    \/ InitPersistent
    \/ InstallHandler
    \/ Launch
    \/ EngineWriteSettings
    \/ EngineSignal
    \/ WaitPoll
    \/ CheckReplied
    \/ read_metview_settings
    \/ Register
    \/ LoadLibrary
    \/ Destroy
    \/ Exit


(***************************************************************************)
(* Engine values: the frames of the argument stack and the values the      *)
(* engine returns, each with the type code p_value_type reports.           *)
(***************************************************************************)
MvNumber(n) == [rt |-> 0, num |-> n]

MvString(b) == [rt |-> 1, bytes |-> b]

MvNil == [rt |-> 8]

\* s.encode('utf-8')
encode(s) == [utf8 |-> s]

\* string_from_ffi (lines 22-23): ffi.string(s).decode('utf-8')
string_from_ffi(b) == b.utf8

\* python_to_mv_index that hands the index on as it is
python_to_mv_index_Identity(pi) == pi

\* python_to_mv_index (lines 18-19)
python_to_mv_index(pi) == pi + 1

\* the number an int or a bool stands for: True is 1 and False is 0
NumberOf(n) == IF n.kind = "bool" THEN (IF n.b THEN 1 ELSE 0) ELSE n.num

\* float(n) for an int or a bool: the same number, as a float
float(n) == NumberOf(n)

\* isinstance(n, int): bool is a subclass of int
IsInt(n) == n.kind \in {"int", "bool"}

\* isinstance(n, dict): Request is a subclass of dict
IsDict(n) == n.kind \in {"dict", "Request"}

IsFileBacked(n) == n.kind \in {"Fieldset", "Bufr", "Geopoints", "NetCDF"}

(***************************************************************************)
(* The state the foreign calls act on: the engine's argument stack, the    *)
(* record of the foreign calls made, and the exception in flight.          *)
(***************************************************************************)
NoExc == [type |-> "none"]

Raised(es) == es.exc # NoExc

Top(es) == es.stack[Len(es.stack)]

Pop(st) == SubSeq(st, 1, Len(st) - 1)

Called(es, c) == [es EXCEPT !.log = Append(@, c)]

Pushed(es, frame, c) ==
    [es EXCEPT !.stack = Append(@, frame), !.log = Append(@, c)]

p_push_number(es, n) == Pushed(es, MvNumber(n), [f |-> "p_push_number", num |-> n])

p_push_string(es, b) == Pushed(es, MvString(b), [f |-> "p_push_string", bytes |-> b])

p_push_value(es, ptr) == Pushed(es, ptr, [f |-> "p_push_value", ptr |-> ptr])

p_push_request(es, r) ==
    Pushed(es, [rt |-> 3, req |-> r], [f |-> "p_push_request", ptr |-> r])

p_push_list(es, mlist) == Pushed(es, mlist, [f |-> "p_push_list"])

\* the elements are held as an explicit sequence, so that a list frame is a
\* fully evaluated value wherever it is stored
p_new_list(n) == [rt |-> 6, elems |-> [i \in 1..n |-> MvNil] \o <<>>]

\* to the host the engine's request is a cffi pointer, of class cdata
p_new_request(verb) == [kind |-> "cdata", verb |-> verb, params |-> <<>>]

\* the engine pops the top frame and stores it as element i of mlist
p_add_value_from_pop_to_list(es, mlist, i) ==
    [es  |-> [es EXCEPT !.stack = Pop(@),
                        !.log = Append(@, [f |-> "p_add_value_from_pop_to_list",
                                           i |-> i - 1])],
     obj |-> [mlist EXCEPT !.elems[i] = Top(es)]]

\* the engine pops the top frame and binds it to parameter k of request r
p_set_request_value_from_pop(es, r, k) ==
    [es  |-> [es EXCEPT !.stack = Pop(@),
                        !.log = Append(@, [f |-> "p_set_request_value_from_pop",
                                           k |-> k])],
     obj |-> [r EXCEPT !.params = Append(@, [name |-> k, value |-> Top(es)])]]

\* push_bytes (lines 250-251)
push_bytes(b, es) == p_push_string(es, b)

\* push_str (lines 254-255)
push_str(s, es) == push_bytes(encode(s), es)

(***************************************************************************)
(* class Request (lines 136-201).                                          *)
(***************************************************************************)
NULL == [null |-> TRUE]

\* Request.to_metview_style (lines 164-174), on the items of the dict
to_metview_style(items) ==
    [i \in 1..Len(items) |->
        IF items[i].v.kind = "bool"
        THEN Item(items[i].k, PyStr(IF items[i].v.b THEN "on" ELSE "off"))
        ELSE items[i]]

\* dict.__setitem__: self[k] = v
SetItemOf(items, k, v) ==
    IF \E i \in 1..Len(items) : items[i].k = k
    THEN [i \in 1..Len(items) |-> IF items[i].k = k THEN Item(k, v) ELSE items[i]]
    ELSE Append(items, Item(k, v))

\* lib.p_get_req_value: the text the engine keeps for parameter i of req, or
\* NULL.  A value bound from the stack is a frame: the engine hands out the
\* bytes of a string frame and the digits of a number frame, and for a list
\* or a request, which are no single text, NULL.
p_get_req_value(req, i) ==
    IF "rt" \notin DOMAIN req.params[i].value THEN req.params[i].value
    ELSE IF req.params[i].value.rt = 1 THEN req.params[i].value.bytes
    ELSE IF req.params[i].value.rt = 0 THEN encode(ToString(req.params[i].value.num))
    ELSE NULL

\* lines 150-156: the parameters of the engine's request whose value is not NULL
RECURSIVE ItemsFromPointer(_, _, _)
ItemsFromPointer(req, i, items) ==
    IF i > Len(req.params) THEN items
    ELSE LET param == string_from_ffi(req.params[i].name)
             raw_val == p_get_req_value(req, i)
         IN ItemsFromPointer(req, i + 1,
                IF raw_val # NULL
                THEN SetItemOf(items, param, PyStr(string_from_ffi(raw_val)))
                ELSE items)

\* Request.__init__ that converts the booleans of req itself
Request_init_InPlace(req) ==
    IF IsDict(req)
    THEN [self |-> [kind |-> "Request",
                    val_pointer |-> None,
                    items |-> to_metview_style(req.items),
                    verb |-> IF req.kind = "Request" THEN req.verb ELSE "UNKNOWN"],
          req  |-> [req EXCEPT !.items = to_metview_style(@)]]
    ELSE [self |-> [kind |-> "Request",
                    val_pointer |-> req,
                    verb |-> string_from_ffi(req.verb),
                    items |-> ItemsFromPointer(req, 1, <<>>)],
          req  |-> req]

\* Request.__init__ (lines 139-156): self is the new Request, and req is the
\* argument as the call leaves it.  self.update(req) copies the items of req
\* and to_metview_style changes the copy.
Request_init(req) ==
    IF IsDict(req)
    THEN [self |-> [kind |-> "Request",
                    val_pointer |-> None,
                    items |-> to_metview_style(req.items),
                    verb |-> IF req.kind = "Request" THEN req.verb ELSE "UNKNOWN"],
          req  |-> req]
    ELSE [self |-> [kind |-> "Request",
                    val_pointer |-> req,
                    verb |-> string_from_ffi(req.verb),
                    items |-> ItemsFromPointer(req, 1, <<>>)],
          req  |-> req]

\* Request(req), the object constructed
Request(req) == Request_init(req).self

\* a value that is held by reference and can change: a copy of a dict
\* shares it with the dict
IsContainer(v) == v.kind \in {"list", "tuple", "dict", "Request"}

\* the items of a dict once the items of its copy are as in copied: the
\* containers are shared, the other values are the dict's own
SharedItems(items, copied) ==
    [i \in 1..Len(items) |->
        IF IsContainer(items[i].v) THEN Item(items[i].k, copied[i].v) ELSE items[i]]

\* the foreign calls Request.__init__ makes for an engine request (lines 149-153)
RECURSIVE ParamCalls(_, _)
ParamCalls(req, i) ==
    IF i > Len(req.params) THEN <<>>
    ELSE <<[f |-> "p_get_req_param", i |-> i - 1],
           [f |-> "p_get_req_value", param |-> req.params[i].name]>>
         \o ParamCalls(req, i + 1)

RequestCalls(req) ==
    <<[f |-> "p_get_req_verb"], [f |-> "p_get_req_num_params"]>> \o ParamCalls(req, 1)

\* Value.push (lines 132-133)
Value_push(self) == self.val_pointer

(***************************************************************************)
(* The argument encoder: push_arg (lines 269-296), push_list (258-266),    *)
(* Request.push (176-193), dict_to_pushed_args (299-306).  Each takes and  *)
(* returns the state the foreign calls act on; ret is the value returned.  *)
(***************************************************************************)
RECURSIVE push_arg(_, _)
RECURSIVE push_list_from(_, _, _, _)
RECURSIVE Request_push_from(_, _, _, _)

\* the rest of the loop of push_list once added holds element i (line 263)
push_list_added(lst, i, added) ==
    push_list_from(lst, i + 1, added.obj, added.es)

\* push_list_pushed that stores the element but leaves its frame on the stack
push_list_pushed_NoPop(lst, i, mlist, pushed) ==
    IF Raised(pushed)
    THEN [es |-> pushed, obj |-> mlist, lst |-> [lst EXCEPT ![i] = pushed.n]]
    ELSE push_list_added([lst EXCEPT ![i] = pushed.n], i,
             [es |-> pushed, obj |-> [mlist EXCEPT !.elems[i] = Top(pushed)]])

\* line 265, unless push_arg raised
push_list_pushed(lst, i, mlist, pushed) ==
    IF Raised(pushed)
    THEN [es |-> pushed, obj |-> mlist, lst |-> [lst EXCEPT ![i] = pushed.n]]
    ELSE push_list_added([lst EXCEPT ![i] = pushed.n], i,
             p_add_value_from_pop_to_list(pushed, mlist, i))

\* the loop of push_list, from element i on (lines 263-265)
push_list_from(lst, i, mlist, es) ==
    IF i > Len(lst) THEN [es |-> es, obj |-> mlist, lst |-> lst]
    ELSE push_list_pushed(lst, i, mlist, push_arg(lst[i], es))

\* line 266, unless the loop raised
push_list_filled(filled) ==
    IF Raised(filled.es) THEN [filled.es EXCEPT !.n = filled.lst]
    ELSE [p_push_list(filled.es, filled.obj) EXCEPT !.n = filled.lst]

push_list(lst, es) ==
    push_list_filled(
        push_list_from(lst, 1, p_new_list(Len(lst)),
                       Called(es, [f |-> "p_new_list", n |-> Len(lst)])))

\* the rest of the loop of Request.push once bound holds item i (line 189)
Request_push_bound(items, i, bound) ==
    Request_push_from(items, i + 1, bound.obj, bound.es)

\* line 191, unless push_arg raised
Request_push_pushed(items, i, r, pushed) ==
    IF Raised(pushed)
    THEN [es |-> pushed, obj |-> r, items |-> [items EXCEPT ![i].v = pushed.n]]
    ELSE Request_push_bound([items EXCEPT ![i].v = pushed.n], i,
             p_set_request_value_from_pop(pushed, r, encode(items[i].k)))

\* the loop of Request.push, from item i on (lines 189-191)
Request_push_from(items, i, r, es) ==
    IF i > Len(items) THEN [es |-> es, obj |-> r, items |-> items]
    ELSE Request_push_pushed(items, i, r, push_arg(items[i].v, es))

\* line 193, unless the loop raised
Request_push_filled(self, filled) ==
    IF Raised(filled.es)
    THEN [filled.es EXCEPT !.n = [self EXCEPT !.items = filled.items]]
    ELSE [p_push_request(filled.es, filled.obj)
              EXCEPT !.n = [self EXCEPT !.items = filled.items]]

\* Request.push that rebuilds the request whether it holds a pointer or not
Request_push_Rebuild(self, es) ==
    Request_push_filled(self,
        Request_push_from(self.items, 1, p_new_request(encode(self.verb)),
            Called(es, [f |-> "p_new_request", verb |-> encode(self.verb)])))

\* Request.push (lines 176-193)
Request_push(self, es) ==
    IF self.val_pointer # None
    THEN [p_push_request(es, Value_push(self)) EXCEPT !.n = self]
    ELSE Request_push_filled(self,
             Request_push_from(self.items, 1, p_new_request(encode(self.verb)),
                 Called(es, [f |-> "p_new_request", verb |-> encode(self.verb)])))

\* line 296: return nargs, unless a branch raised
push_arg_return(done, n) ==
    IF Raised(done) THEN [done EXCEPT !.n = n] ELSE [done EXCEPT !.ret = 1, !.n = n]

\* line 292: the list n once push_list has gone through its elements
push_arg_list(n, done) == push_arg_return(done, [n EXCEPT !.elems = done.n])

\* lines 280 and 282: n once the Request init.self is pushed.  A Request is
\* pushed itself; a dict is pushed as Request(n), which shares its values
push_arg_dict(n, init, done) ==
    push_arg_return(done,
        IF n.kind = "Request" THEN done.n
        ELSE [init.req EXCEPT !.items = SharedItems(@, done.n.items)])

push_arg_promoted(n, init, es) == push_arg_dict(n, init, Request_push(init.self, es))

\* push_arg that pushes nothing for a value it cannot encode, and goes on
push_arg_Silent(n, es) ==
    IF n.kind = "float" THEN push_arg_return(p_push_number(es, n.num), n)
    ELSE IF IsInt(n) THEN push_arg_return(p_push_number(es, float(n)), n)
    ELSE IF n.kind = "str" THEN push_arg_return(push_str(n.s, es), n)
    ELSE IF IsDict(n)
    THEN push_arg_promoted(n, IF n.kind = "Request" THEN [self |-> n, req |-> n]
                              ELSE Request_init(n), es)
    ELSE IF IsFileBacked(n) THEN push_arg_return(p_push_value(es, Value_push(n)), n)
    ELSE IF n.kind \in {"list", "tuple"} THEN push_arg_list(n, push_list(n.elems, es))
    ELSE push_arg_return(p_push_string(es, encode("")), n)

\* push_arg (lines 269-296); a dict that is no Request is first made one
push_arg(n, es) ==
    IF n.kind = "float" THEN push_arg_return(p_push_number(es, n.num), n)
    ELSE IF IsInt(n) THEN push_arg_return(p_push_number(es, float(n)), n)
    ELSE IF n.kind = "str" THEN push_arg_return(push_str(n.s, es), n)
    ELSE IF IsDict(n)
    THEN push_arg_promoted(n, IF n.kind = "Request" THEN [self |-> n, req |-> n]
                              ELSE Request_init(n), es)
    ELSE IF IsFileBacked(n) THEN push_arg_return(p_push_value(es, Value_push(n)), n)
    ELSE IF n.kind \in {"list", "tuple"} THEN push_arg_list(n, push_list(n.elems, es))
    ELSE push_arg_return([es EXCEPT !.exc = [type |-> "TypeError", kind |-> n.kind]], n)

RECURSIVE dict_to_pushed_args_from(_, _, _)

\* the rest of the loop of dict_to_pushed_args once the value is pushed
dict_to_pushed_args_pushed(items, i, val) ==
    IF Raised(val) THEN [val EXCEPT !.n = [items EXCEPT ![i].v = val.n]]
    ELSE dict_to_pushed_args_from([items EXCEPT ![i].v = val.n], i + 1, val)

\* the loop of dict_to_pushed_args, from item i on (lines 302-304)
dict_to_pushed_args_from(items, i, es) ==
    IF i > Len(items) THEN [es EXCEPT !.n = items]
    ELSE dict_to_pushed_args_pushed(items, i,
             push_arg(items[i].v, push_str(items[i].k, es)))

\* line 306: return 2 * len(d), unless the loop raised
dict_to_pushed_args_return(d, pushed) ==
    IF Raised(pushed) THEN pushed ELSE [pushed EXCEPT !.ret = 2 * Len(d.items)]

\* dict_to_pushed_args (lines 299-306)
dict_to_pushed_args(d, es) ==
    dict_to_pushed_args_return(d, dict_to_pushed_args_from(d.items, 1, es))

(***************************************************************************)
(* lib.p_call_function(name, nargs): the engine runs the named function on *)
(* the top nargs frames of the stack, which it consumes.  The record of    *)
(* the call keeps the stack the engine found.                              *)
(***************************************************************************)
p_call_function(es, name, nargs) ==
    [es EXCEPT !.stack = SubSeq(@, 1, Len(@) - nargs),
               !.log = Append(@, [f |-> "p_call_function", name |-> name,
                                  nargs |-> nargs, stack |-> es.stack])]

RECURSIVE push_args_from(_, _, _, _)

\* line 445: nargs += actual_n_args, unless push_arg raised
push_args_pushed(args, i, nargs, pushed) ==
    IF Raised(pushed)
    THEN [es |-> pushed, nargs |-> nargs, args |-> [args EXCEPT ![i] = pushed.n]]
    ELSE push_args_from([args EXCEPT ![i] = pushed.n], i + 1, nargs + pushed.ret, pushed)

\* the loop over the positional arguments (lines 443-445), from argument i on
push_args_from(args, i, nargs, es) ==
    IF i > Len(args) THEN [es |-> es, nargs |-> nargs, args |-> args]
    ELSE push_args_pushed(args, i, nargs, push_arg(args[i], es))

\* what _call_function leaves: the state of the foreign calls, and the
\* arguments of the caller as they are now
call_function_done(es, args, kwargs) ==
    [stack |-> es.stack, log |-> es.log, exc |-> es.exc, ret |-> es.ret,
     n |-> None, args |-> args, kwargs |-> kwargs]

\* call_function_invoke without nargs += dn
call_function_invoke_NoDn(name, pos, kwargs, kw) ==
    call_function_done(
        IF Raised(kw) THEN kw ELSE p_call_function(kw, encode(name), pos.nargs),
        pos.args, SharedItems(kwargs, kw.n))

\* lines 451-453: nargs += dn and the invocation, unless a push raised; the
\* values of kwargs are shared with merged_dict and the Request made of it
call_function_invoke(name, pos, kwargs, kw) ==
    call_function_done(
        IF Raised(kw) THEN kw ELSE p_call_function(kw, encode(name), pos.nargs + kw.ret),
        pos.args, SharedItems(kwargs, kw.n))

\* lines 447-450: the keyword arguments, unless a positional argument raised
call_function_kwargs(name, kwargs, pos) ==
    IF Raised(pos.es) THEN call_function_done(pos.es, pos.args, kwargs)
    ELSE IF Len(kwargs) > 0
    THEN call_function_invoke(name, pos, kwargs,
             dict_to_pushed_args(Request(PyDict(kwargs)), pos.es))
    ELSE call_function_invoke(name, pos, kwargs, [pos.es EXCEPT !.ret = 0, !.n = <<>>])

\* _call_function (lines 439-453); kwargs is the sequence of the keyword items
call_function(name, args, kwargs, es) ==
    call_function_kwargs(name, kwargs, push_args_from(args, 1, 0, es))

(***************************************************************************)
(* The tagged decoder: value_from_metview (lines 456-489), with            *)
(* list_from_metview (412-420) and FileBackedValue.__init__ (311-314).     *)
(* Each returns the host value, or the exception raised, and the record of *)
(* the foreign calls extended by those it made.                            *)
(***************************************************************************)
Returned(v, log) == [exc |-> NoExc, val |-> v, log |-> log]

Raise(msg, log) == [exc |-> [type |-> "Exception", msg |-> msg], val |-> None, log |-> log]

\* FileBackedValue.__init__ for the class cls
FileBackedValue(cls, val_pointer, log) ==
    Returned([kind |-> cls, val_pointer |-> val_pointer,
              url |-> string_from_ffi(val_pointer.path)],
             Append(log, [f |-> "p_data_path"]))

RECURSIVE value_from_metview(_, _)
RECURSIVE list_from_metview_from(_, _, _, _)

\* list_from_metview_decoded that leaves out an element it cannot decode
list_from_metview_decoded_Skip(mlist, i, result_, v) ==
    IF v.exc # NoExc THEN list_from_metview_from(mlist, i + 1, result_, v.log)
    ELSE list_from_metview_from(mlist, i + 1, Append(result_, v.val), v.log)

\* line 419: result.append(v), unless value_from_metview raised
list_from_metview_decoded(mlist, i, result_, v) ==
    IF v.exc # NoExc THEN v
    ELSE list_from_metview_from(mlist, i + 1, Append(result_, v.val), v.log)

\* the loop of list_from_metview, from element i on (lines 416-419)
list_from_metview_from(mlist, i, result_, log) ==
    IF i > Len(mlist) THEN Returned(PyList(result_), log)
    ELSE list_from_metview_decoded(mlist, i, result_,
             value_from_metview(mlist[i],
                 Append(log, [f |-> "p_list_element_as_value", i |-> i - 1])))

\* list_from_metview (lines 412-420)
list_from_metview(mlist, log) ==
    list_from_metview_from(mlist, 1, <<>>, Append(log, [f |-> "p_list_count"]))

\* unhandled_return_type that returns None for a type code it does not know
unhandled_return_type_Default(log) == Returned(None, log)

\* lines 488-489: a type code that is none of 0..9
unhandled_return_type(log) ==
    Raise("value_from_metview got an unhandled return type", log)

\* error_from_metview that raises without the engine's message
error_from_metview_NoMessage(val, log) ==
    Raise("Metview error", Append(log, [f |-> "p_error_message"]))

\* lines 485-487: the engine's error, raised with its message
error_from_metview(val, log) ==
    Raise("Metview error: " \o string_from_ffi(val.msg),
          Append(log, [f |-> "p_error_message"]))

\* the branches of value_from_metview on the type code rt (lines 459-489)
value_from_metview_rt(val, rt, log) ==
    IF rt = 0 THEN Returned(PyFloat(val.num), Append(log, [f |-> "p_value_as_number"]))
    ELSE IF rt = 1
    THEN Returned(PyStr(string_from_ffi(val.bytes)),
                  Append(log, [f |-> "p_value_as_string"]))
    ELSE IF rt = 3
    THEN Returned(Request(val.req),
                  Append(log, [f |-> "p_value_as_request"]) \o RequestCalls(val.req))
    ELSE IF rt \in {2, 4, 5, 7}
    THEN FileBackedValue(IF rt = 2 THEN "Fieldset" ELSE IF rt = 4 THEN "Bufr"
                         ELSE IF rt = 5 THEN "Geopoints" ELSE "NetCDF", val, log)
    ELSE IF rt = 6
    THEN list_from_metview(val.elems, Append(log, [f |-> "p_value_as_list"]))
    ELSE IF rt = 8 THEN Returned(None, log)
    ELSE IF rt = 9 THEN error_from_metview(val, log)
    ELSE unhandled_return_type(log)

\* value_from_metview (lines 456-489)
value_from_metview(val, log) ==
    value_from_metview_rt(val, val.rt, Append(log, [f |-> "p_value_type"]))

(***************************************************************************)
(* make(name) (lines 492-502): the binding it returns, wrapped.  w is the  *)
(* value the engine leaves as the result of the call.  Returns the stack   *)
(* the call leaves, the foreign calls it made, and its outcome.            *)
(***************************************************************************)
\* lines 499-500
wrapped_result(called, val) ==
    [stack |-> called.stack, ffi |-> val.log,
     result |-> [exc |-> val.exc, val |-> val.val],
     args |-> called.args, kwargs |-> called.kwargs]

\* lines 496-500, unless _call_function raised
wrapped_called(called, w) ==
    IF Raised(called)
    THEN [stack |-> called.stack, ffi |-> called.log,
          result |-> [exc |-> called.exc, val |-> None],
          args |-> called.args, kwargs |-> called.kwargs]
    ELSE wrapped_result(called,
             value_from_metview(w, Append(called.log,
                                          [f |-> "p_result_as_value", val |-> w])))

wrapped(name, args, kwargs, w, st) ==
    wrapped_called(
        call_function(name, args, kwargs,
                      [stack |-> st, log |-> <<>>, exc |-> NoExc, ret |-> 0, n |-> None]),
        w)

\* Request.__getitem__ (lines 195-201) and Fieldset.__getitem__ (340-341):
\* the arguments handed to subset = make('[]')
getitem_args(self, index) ==
    IF self.kind = "Request" /\ ~IsInt(index)
    THEN <<self, index>>
    ELSE <<self, PyInt(python_to_mv_index(NumberOf(index)))>>

(***************************************************************************)
(* The values the user's script passes, and the values the engine returns. *)
(***************************************************************************)
Atom(j) == IF j % 2 = 1 THEN PyInt(j) ELSE PyStr("x")

\* a list of n elements nested d deep: its odd elements are lists again
RECURSIVE ListVal(_, _)
ListVal(d, n) ==
    PyList([j \in 1..n |-> IF d > 1 /\ j % 2 = 1 THEN ListVal(d - 1, n) ELSE Atom(j)])

\* a list that holds, d deep, a value push_arg cannot encode
RECURSIVE BadList(_)
BadList(d) == PyList(<<PyInt(1), IF d > 1 THEN BadList(d - 1) ELSE Other>>)

\* the j-th positional argument and the j-th keyword argument of a call
PosArg(j) == IF j = 1 THEN PyInt(2) ELSE IF j = 2 THEN PyInt(3) ELSE ListVal(MaxDepth, j)

KwItem(j) ==
    IF j = 1 THEN Item("a", PyBool(TRUE))
    ELSE IF j = 2 THEN Item("b", PyInt(1))
    ELSE Item("k" \o ToString(j), ListVal(1, j))

CountArgs(p) == [j \in 1..p |-> PosArg(j)]

KwItems(k) == [j \in 1..k |-> KwItem(j)]

Dicts ==
    { PyDict(<<Item("a", PyBool(TRUE))>>),
      PyDict(<<Item("a", PyInt(1)), Item("b", ListVal(MaxDepth, MaxLen))>>),
      PyDict(<<Item("r", Request(PyDict(<<Item("a", PyBool(FALSE))>>))),
               Item("l", PyList(<<PyBool(FALSE)>>))>>) }

Values ==
    {PyInt(2), PyFloat(3), PyStr("x"), PyBool(TRUE),
     [kind |-> "tuple", elems |-> <<PyInt(1), PyStr("x")>>]}
    \cup { ListVal(d, n) : d \in 1..MaxDepth, n \in 0..MaxLen }
    \cup Dicts

\* calls that raise TypeError: with nothing pushed, after one positional
\* argument, after the key of a keyword argument, inside nested lists, and
\* inside a request
BadInputs ==
    { [name |-> "print", args |-> <<Other>>, kwargs |-> <<>>],
      [name |-> "print", args |-> <<PyInt(2), Other>>, kwargs |-> <<>>],
      [name |-> "print", args |-> <<>>, kwargs |-> <<Item("a", Other)>>],
      [name |-> "print", args |-> <<BadList(MaxDepth)>>, kwargs |-> <<>>],
      [name |-> "print", args |-> <<PyDict(<<Item("a", PyInt(1)), Item("b", Other)>>)>>,
       kwargs |-> <<>>] }

\* h is the value the script holds
CallInputs(h) ==
    { [name |-> "+", args |-> CountArgs(p), kwargs |-> KwItems(k)] :
        p \in 0..MaxArgs, k \in 0..MaxKw }
    \cup { [name |-> "print", args |-> <<v>>, kwargs |-> <<>>] : v \in Values \cup {h} }
    \cup BadInputs

\* the engine's request RETRIEVE with a parameter that has no string value
MvRequest ==
    [kind |-> "cdata", verb |-> encode("RETRIEVE"),
     params |-> <<[name |-> encode("param"), value |-> encode("t")],
                  [name |-> encode("levelist"), value |-> NULL]>>]

MvFieldset == [rt |-> 2, path |-> encode("/tmp/a.grib")]

MvError(m) == [rt |-> 9, msg |-> encode(m)]

Results == {MvNumber(5), [rt |-> 3, req |-> MvRequest], MvFieldset}

Handles == {[rt |-> 3, req |-> MvRequest], MvFieldset}

\* the other values the engine can return: of every type code of
\* value_from_metview, and of a type code it does not know
MvBufr == [rt |-> 4, path |-> encode("/tmp/a.bufr")]

MvGeopoints == [rt |-> 5, path |-> encode("/tmp/a.gpt")]

MvNetCDF == [rt |-> 7, path |-> encode("/tmp/a.nc")]

MvUnknown == [rt |-> 10]

MvList(elems) == [rt |-> 6, elems |-> elems]

MvErrors == {MvError("bad parameter"), MvError("no data")}

MvLeaves ==
    {MvNumber(5), MvString(encode("x")), MvFieldset, [rt |-> 3, req |-> MvRequest],
     MvBufr, MvGeopoints, MvNetCDF, MvNil, MvUnknown}
    \cup MvErrors

\* lists of up to MaxLen elements, each a number, a string, nil, an error
\* or a value of unknown type
MvListElems ==
    {MvNumber(5), MvString(encode("x")), MvNil, MvError("bad parameter"), MvUnknown}

MvFlatLists ==
    UNION { { MvList(elems) : elems \in [1..n -> MvListElems] } : n \in 0..MaxLen }

\* the list that holds x, d lists deep, after a number
RECURSIVE MvNested(_, _)
MvNested(d, x) == IF d = 0 THEN x ELSE MvList(<<MvNumber(5), MvNested(d - 1, x)>>)

EngineValues ==
    MvLeaves \cup MvFlatLists
    \cup { MvNested(d, x) : d \in 1..MaxDepth, x \in MvLeaves \cup MvFlatLists }

(***************************************************************************)
(* What the user's script does once the module is imported.                *)
(***************************************************************************)
NoCall == [name |-> "", args |-> <<>>, kwargs |-> <<>>, base |-> <<>>,
           subscript |-> None, args_after |-> <<>>, kwargs_after |-> <<>>]

\* a call of a binding made by make; index is the subscript when the call
\* comes from __getitem__, and None otherwise.  The call record keeps the
\* arguments as they were passed and as the call left them; the value the
\* script holds is the object it passed.
BindingCall(name, args, kwargs, w, index) ==
    /\ pc = "ready"
    /\ Len(stack) <= MaxResidue
    /\ LET r == wrapped(name, args, kwargs, w, stack)
       IN /\ stack' = r.stack
          /\ ffi' = r.ffi
          /\ result' = r.result
          /\ call' = [name |-> name, args |-> args, kwargs |-> kwargs,
                      base |-> stack, subscript |-> index,
                      args_after |-> r.args, kwargs_after |-> r.kwargs]
          /\ held' = IF Len(args) > 0 /\ args[1] = held THEN r.args[1] ELSE held
    /\ UNCHANGED session_vars

Call(Inputs, W) ==
    \E inp \in Inputs, w \in W :
        BindingCall(inp.name, inp.args, inp.kwargs, w, None)

\* held = Request(d)
NewRequest ==
    /\ pc = "ready"
    /\ \E d \in Dicts : held' = Request(d)
    /\ UNCHANGED <<session_vars, stack, ffi, result, call>>

\* held[k] = v
SetItem ==
    /\ pc = "ready"
    /\ held.kind = "Request"
    /\ \E k \in {"a", "z"}, v \in {PyBool(TRUE)} :
         held' = [held EXCEPT !.items = SetItemOf(@, k, v)]
    /\ UNCHANGED <<session_vars, stack, ffi, result, call>>

\* held[index], for a Request or a Fieldset
GetItem(W) ==
    /\ held.kind \in {"Request", "Fieldset"}
    /\ \E i \in -1..MaxIndex, w \in W :
         BindingCall("[]", getitem_args(held, PyInt(i)), <<>>, w, PyInt(i))

\* held = the value the last call returned
Assign ==
    /\ pc = "ready"
    /\ result.exc = NoExc
    /\ result.val.kind \in {"Request", "Fieldset"}
    /\ held' = result.val
    /\ UNCHANGED <<session_vars, stack, ffi, result, call>>

(***************************************************************************)
(* The module once imported, the engine started and the library loaded.    *)
(***************************************************************************)
Imported ==
    /\ pc = "ready"
    /\ environ = {"METVIEW_DIR", "LD_LIBRARY_PATH"}
    /\ persistent_session = FALSE
    /\ metview_replied = TRUE
    /\ has_info_section = TRUE
    /\ info_section = InfoKeys
    /\ handler = TRUE
    /\ engine = "ready"
    /\ settings_file = [sections |-> {"Environment", "Info"},
                        env |-> {"metview_dir"}, info |-> InfoKeys]
    /\ now = 0
    /\ wait_start = 0
    /\ handshake = TRUE
    /\ atexit_registered = TRUE
    /\ destroy_calls = 0
    /\ kill_attempts = 0
    /\ kills = 0
    /\ error = "none"
    /\ lib = "initialised"
    /\ stack = <<>>
    /\ ffi = <<p_init>>
    /\ result = [exc |-> NoExc, val |-> None]
    /\ held = None
    /\ call = NoCall

\* the script calls bindings with arguments of every kind
CallNext ==
    \/ Call(CallInputs(held), Results)
    \/ Assign

CallSpec == Imported /\ [][CallNext]_vars

\* the script builds Requests, changes them, passes them on and subscripts them
RequestNext ==
    \/ NewRequest
    \/ SetItem
    \/ Call({[name |-> "print", args |-> <<held>>, kwargs |-> <<>>]}, Handles)
    \/ GetItem(Handles)
    \/ Assign

RequestSpec == Imported /\ [][RequestNext]_vars

\* the script calls bindings whose results are of every kind
DecodeInputs ==
    { [name |-> "+", args |-> CountArgs(2), kwargs |-> <<>>],
      [name |-> "print", args |-> <<PyStr("x")>>, kwargs |-> KwItems(1)] }

\* the frame push_arg(v) leaves on an empty stack
FrameOf(v) ==
    Top(push_arg(v, [stack |-> <<>>, log |-> <<>>, exc |-> NoExc, ret |-> 0, n |-> None]))

\* the values handed to a function that returns its argument
EchoValues ==
    Values
    \cup { Request(PyDict(<<Item("b", PyStr("x"))>>)),
           Request(PyDict(<<Item("a", PyInt(1)), Item("b", PyStr("x"))>>)) }

\* each of these values with the frame the engine holds for it
EchoCalls == { [v |-> v, w |-> FrameOf(v)] : v \in EchoValues }

\* a call of a binding whose engine function returns the argument it got
Echo ==
    \E c \in EchoCalls : BindingCall("f", <<c.v>>, <<>>, c.w, None)

DecodeNext ==
    \/ Call(DecodeInputs, EngineValues)
    \/ Echo

DecodeSpec == Imported /\ [][DecodeNext]_vars

\* the session, from the import of the module to the exit of the host
SmokeInputs ==
    { [name |-> "+", args |-> CountArgs(2), kwargs |-> <<>>],
      [name |-> "print", args |-> <<PyInt(2), Other>>, kwargs |-> <<>>] }

Next ==
    \/ SessionNext
    \/ Call(SmokeInputs, {MvNumber(5)})

Spec == Init /\ [][Next]_vars

\* the host keeps running its own code: the polling loop is not starved
FairSpec == Spec /\ WF_vars(WaitPoll)

(***************************************************************************)
(* __init__ runs on: the loop of lines 60-62 takes its next pass and the   *)
(* statement of line 64 is executed once the loop has ended.               *)
(***************************************************************************)
HandshakeFairSpec == Spec /\ WF_vars(WaitPoll) /\ WF_vars(CheckReplied)

(***************************************************************************)
(* What the record of the last binding call shows.                         *)
(***************************************************************************)
\* the foreign calls of the last operation that push a frame, or pop one
Pushes == {"p_push_number", "p_push_string", "p_push_value", "p_push_request",
           "p_push_list"}

Pops == {"p_add_value_from_pop_to_list", "p_set_request_value_from_pop"}

\* the positions in ffi of the invocations of a named function
Invocations == { i \in 1..Len(ffi) : ffi[i].f = "p_call_function" }

Invoked == Invocations # {}

\* the invocation of the last binding call
Invocation == ffi[CHOOSE i \in Invocations : TRUE]

\* a foreign call has been made
EngineCalled == lib = "initialised" \/ ffi # <<>> \/ stack # <<>>

(***************************************************************************)
(* C1.  In a spawned session no foreign call (p_init, a push, an           *)
(* invocation, the retrieval of a result) is made unless the readiness     *)
(* signal was observed by __init__ and the settings file was read; after a *)
(* startup that timed out no foreign call is ever made.                    *)
(***************************************************************************)
C1_NoEngineCallBeforeHandshake ==
    ~persistent_session =>
        /\ EngineCalled => (metview_replied /\ handshake /\ has_info_section)
        /\ error = "timeout" => ~EngineCalled

\* a binding was called in a spawned session
C1_Witness ==
    /\ ~persistent_session
    /\ Invoked
    /\ \E i \in 1..Len(ffi) : ffi[i].f = "p_result_as_value"

(***************************************************************************)
(* C2.  The handshake wait is bounded: the loop sleeps only while less     *)
(* than metview_startup_timeout seconds have passed, so that the wait ends *)
(* within the timeout and one pass of the loop; when the wait has ended,   *)
(* __init__ fails with the startup-timeout error if metview_replied is     *)
(* false and goes on to read the settings file if it is true; and the wait *)
(* always ends.                                                            *)
(***************************************************************************)
C2_BoundedHandshakeWait ==
    /\ [][(pc = "wait" /\ now' # now)
            => (now - wait_start < metview_startup_timeout /\ pc' = "wait")]_vars
    /\ [](pc \in {"wait", "check"}
            => now - wait_start < metview_startup_timeout + MaxSleep)
    /\ [][(pc = "check" /\ pc' # "check")
            => IF metview_replied
               THEN pc' = "read" /\ error' = error
               ELSE pc' = "import_failed" /\ error' = "timeout"]_vars
    /\ (pc = "wait" ~> pc # "wait")

\* the wait ran into the timeout and __init__ failed
C2_Witness ==
    /\ pc = "import_failed"
    /\ error = "timeout"
    /\ now - wait_start >= metview_startup_timeout

(***************************************************************************)
(* C3.  For a spawned session whose handshake completed, the terminate     *)
(* signal is sent exactly once over any sequence of calls of destroy (the  *)
(* script's own and the one made at exit): never a second time, and once   *)
(* when a call of destroy has returned normally.                           *)
(***************************************************************************)
C3_TeardownExactlyOnce ==
    (~persistent_session /\ handshake) =>
        /\ kills <= 1
        /\ ( /\ destroy_calls > 0 \/ (pc = "exited" /\ atexit_registered)
             /\ error = "none" ) => kills = 1

(***************************************************************************)
(* C4.  On every startup path of a spawned session on which __init__       *)
(* observed the readiness signal, also when reading the settings file or   *)
(* loading the library failed afterwards, the terminate signal has been    *)
(* sent to the engine once the host process has exited normally.           *)
(***************************************************************************)
C4_TeardownOnExit ==
    (~persistent_session /\ handshake /\ pc = "exited") => kill_attempts >= 1

(***************************************************************************)
(* C5.  With METVIEW_TITLE_PROD in the environment __init__ installs no    *)
(* signal handler, starts no engine, does not wait and registers no        *)
(* teardown; when it returns, persistent_session is true and info_section  *)
(* holds METVIEW_LIB alone; and destroy never sends a signal, however      *)
(* often it is called.                                                     *)
(***************************************************************************)
C5_PersistentSession ==
    "METVIEW_TITLE_PROD" \in environ =>
        /\ ~handler /\ engine = "none" /\ now = 0 /\ ~atexit_registered
        /\ pc \notin {"launch", "wait", "check", "read", "register"}
        /\ kill_attempts = 0 /\ kills = 0
        /\ pc # "import" => persistent_session
        /\ (pc # "import" /\ "METVIEW_LIB" \in environ)
              => (has_info_section /\ info_section = {"METVIEW_LIB"})

\* destroy was called more than once in a persistent session, and at exit
C5_Witness ==
    /\ persistent_session
    /\ has_info_section
    /\ destroy_calls >= 2
    /\ pc = "exited"


\* the position in ffi of the invocation of the last binding call
InvocationAt == CHOOSE i \in Invocations : TRUE

\* the height of the stack after the first i foreign calls of the last
\* binding call, up to its invocation
HeightAfter(i) ==
    Len(call.base)
    + Cardinality({ j \in 1..i : ffi[j].f \in Pushes })
    - Cardinality({ j \in 1..i : ffi[j].f \in Pops })

\* frame is the engine's value for the host value v, element by element
RECURSIVE Encodes(_, _)
Encodes(frame, v) ==
    IF v.kind \in {"int", "float", "bool"} THEN frame = MvNumber(NumberOf(v))
    ELSE IF v.kind = "str" THEN frame = MvString(encode(v.s))
    ELSE IF v.kind \in {"list", "tuple"}
    THEN /\ frame.rt = 6
         /\ Len(frame.elems) = Len(v.elems)
         /\ \A j \in 1..Len(v.elems) : Encodes(frame.elems[j], v.elems[j])
    ELSE IF IsFileBacked(v) THEN frame = v.val_pointer
    ELSE IF v.kind = "Request" /\ v.val_pointer # None
    THEN frame = [rt |-> 3, req |-> v.val_pointer]
    ELSE IF IsDict(v)
    THEN /\ frame.rt = 3
         /\ Len(frame.req.params) = Len(v.items)
         /\ \A j \in 1..Len(v.items) :
              /\ frame.req.params[j].name = encode(v.items[j].k)
              /\ Encodes(frame.req.params[j].value,
                         IF v.kind = "dict" THEN to_metview_style(v.items)[j].v
                         ELSE v.items[j].v)
    ELSE FALSE

(***************************************************************************)
(* C6: at the invocation of a call with p positional and k keyword         *)
(* arguments the stack holds, in push order, one frame per positional      *)
(* argument and then a key frame and a value frame per keyword argument,   *)
(* and the argument count is p + 2k, the number of frames on the stack.    *)
(***************************************************************************)
C6_CallArgumentFrames ==
    (Invoked /\ call.subscript = None) =>
        /\ Invocation.nargs = Len(call.args) + 2 * Len(call.kwargs)
        /\ Len(Invocation.stack) = Invocation.nargs
        /\ \A j \in 1..Len(call.args) : Encodes(Invocation.stack[j], call.args[j])
        /\ \A j \in 1..Len(call.kwargs) :
             /\ Invocation.stack[Len(call.args) + 2 * j - 1]
                    = MvString(encode(call.kwargs[j].k))
             /\ Encodes(Invocation.stack[Len(call.args) + 2 * j],
                        to_metview_style(call.kwargs)[j].v)

C8_HandleForwarded ==
    /\ (held.kind = "Request" /\ held.val_pointer # None)
           => held.val_pointer = MvRequest
    /\ (call # NoCall /\ call.args[1].kind = "Request") =>
         IF call.args[1].val_pointer # None
         THEN /\ ffi[1] = [f |-> "p_push_request", ptr |-> call.args[1].val_pointer]
              /\ \A i \in 1..Len(ffi) :
                   ffi[i].f \notin {"p_new_request", "p_set_request_value_from_pop"}
              /\ Cardinality({ i \in 1..Len(ffi) : ffi[i].f = "p_push_request" }) = 1
              /\ Invocation.stack[Len(call.base) + 1]
                     = [rt |-> 3, req |-> call.args[1].val_pointer]
         ELSE /\ ffi[1] = [f |-> "p_new_request", verb |-> encode(call.args[1].verb)]
              /\ Cardinality({ i \in 1..Len(ffi) :
                                 ffi[i].f = "p_set_request_value_from_pop" })
                     >= Len(call.args[1].items)
              /\ Encodes(Invocation.stack[Len(call.base) + 1], call.args[1])

\* a Request from a handle was pushed after one of its items was changed
C8_Witness ==
    /\ call # NoCall
    /\ call.subscript = None
    /\ call.args[1].kind = "Request"
    /\ call.args[1].val_pointer = MvRequest
    /\ call.args[1].items # ItemsFromPointer(MvRequest, 1, <<>>)
    /\ Invoked

(***************************************************************************)
(* C9: in every state of a Request no value is a boolean, true being kept  *)
(* as "on" and false as "off", and no request is pushed with a value that  *)
(* is a boolean, which the engine would get as a number.                   *)
(***************************************************************************)
C9_BooleansNormalised ==
    /\ held.kind = "Request" =>
         \A i \in 1..Len(held.items) : held.items[i].v.kind # "bool"
    /\ (call # NoCall /\ call.args[1].kind = "Request") =>
         \A i \in 1..Len(call.args[1].items) : call.args[1].items[i].v.kind # "bool"

(***************************************************************************)
(* C10: the subscript i of a Request or of a Fieldset invokes the engine's *)
(* function "[]" with two arguments, the value and the number i + 1, and   *)
(* the value returned is the engine's result.                              *)
(***************************************************************************)
C10_SubscriptOneBased ==
    call.subscript # None =>
        /\ Invoked
        /\ Invocation.name = encode("[]")
        /\ Invocation.nargs = 2
        /\ Len(Invocation.stack) = Len(call.base) + 2
        /\ Encodes(Invocation.stack[Len(call.base) + 1], call.args[1])
        /\ Invocation.stack[Len(call.base) + 2] = MvNumber(NumberOf(call.subscript) + 1)
        /\ \E i \in 1..Len(ffi) : i > InvocationAt /\ ffi[i].f = "p_result_as_value"

\* a Request was subscripted with 0
C10_Witness ==
    /\ call.subscript = PyInt(0)
    /\ call.args[1].kind = "Request"
    /\ Invoked
    /\ Invocation.stack[Len(Invocation.stack)] = MvNumber(1)


\* the position in ffi of the retrieval of the result of the last binding
\* call, and the engine value retrieved
Retrievals == { i \in 1..Len(ffi) : ffi[i].f = "p_result_as_value" }

Retrieved == Retrievals # {}

RetrievedAt == CHOOSE i \in Retrievals : TRUE

ResultFrame == ffi[RetrievedAt].val

(***************************************************************************)
(* C11, as stated: when the result of a binding has the error type with    *)
(* message m, the binding raises and the message of the exception is m.    *)
(***************************************************************************)
C11_ExactMessage ==
    (Retrieved /\ ResultFrame.rt = 9) =>
        /\ result.exc.type = "Exception"
        /\ result.val = None
        /\ result.exc.msg = string_from_ffi(ResultFrame.msg)

(***************************************************************************)
(* C11, amended: when the result of a binding has the error type with     *)
(* message m, the binding raises, returns no value, and the message of     *)
(* the exception is "Metview error: " followed by m.                       *)
(***************************************************************************)
C11_PrefixedMessage ==
    (Retrieved /\ ResultFrame.rt = 9) =>
        /\ result.exc.type = "Exception"
        /\ result.val = None
        /\ result.exc.msg = "Metview error: " \o string_from_ffi(ResultFrame.msg)
        /\ ffi[Len(ffi)].f = "p_error_message"

\* a binding got the error "bad parameter" from the engine
C11_Witness ==
    /\ Retrieved
    /\ ResultFrame = MvError("bad parameter")
    /\ result.exc = [type |-> "Exception", msg |-> "Metview error: bad parameter"]


\* the engine value w can be decoded: its type code, and that of every
\* element of a list at every depth, is one of 0..8
RECURSIVE Decodable(_)
Decodable(w) ==
    /\ w.rt \in 0..8
    /\ w.rt = 6 => \A j \in 1..Len(w.elems) : Decodable(w.elems[j])

\* the host value v is the engine value w decoded, element by element
RECURSIVE Decodes(_, _)
Decodes(v, w) ==
    IF w.rt = 0 THEN v = PyFloat(w.num)
    ELSE IF w.rt = 1 THEN v = PyStr(string_from_ffi(w.bytes))
    ELSE IF w.rt \in {2, 4, 5, 7}
    THEN /\ v.kind = (IF w.rt = 2 THEN "Fieldset" ELSE IF w.rt = 4 THEN "Bufr"
                      ELSE IF w.rt = 5 THEN "Geopoints" ELSE "NetCDF")
         /\ v.val_pointer = w
    ELSE IF w.rt = 3
    THEN /\ v.kind = "Request"
         /\ v.val_pointer = w.req
         /\ v.verb = string_from_ffi(w.req.verb)
    ELSE IF w.rt = 6
    THEN /\ v.kind = "list"
         /\ Len(v.elems) = Len(w.elems)
         /\ \A j \in 1..Len(w.elems) : Decodes(v.elems[j], w.elems[j])
    ELSE IF w.rt = 8 THEN v = None
    ELSE FALSE

(***************************************************************************)
(* C12: the value of every type code of the table is decoded to the host   *)
(* value of the matching kind: a number to a float, a string to a str, a   *)
(* fieldset, bufr, geopoints or netcdf to the object of that class on the  *)
(* handle, a request to the Request on the handle, a list to a list, nil   *)
(* to None.  The error type always raises and returns nothing, and a type  *)
(* code outside the table raises.                                          *)
(***************************************************************************)
C12_DecoderTotal ==
    Retrieved =>
        /\ ResultFrame.rt \in {0, 1, 2, 3, 4, 5, 7, 8} =>
             /\ result.exc = NoExc
             /\ Decodes(result.val, ResultFrame)
        /\ (ResultFrame.rt = 6 /\ result.exc = NoExc) =>
             /\ result.val.kind = "list"
             /\ Len(result.val.elems) = Len(ResultFrame.elems)
        /\ (ResultFrame.rt = 6 /\ \A j \in 1..Len(ResultFrame.elems) :
                                      ResultFrame.elems[j].rt \in {0, 1, 8})
               => result.exc = NoExc
        /\ ResultFrame.rt = 9 =>
             /\ result.exc.type = "Exception"
             /\ result.val = None
        /\ ResultFrame.rt \notin 0..9 =>
             /\ result.exc = [type |-> "Exception",
                              msg |-> "value_from_metview got an unhandled return type"]
             /\ result.val = None

\* a value of a type code outside the table was returned, and raised
C12_Witness ==
    /\ Retrieved
    /\ ResultFrame = MvUnknown
    /\ result.exc.type = "Exception"

(***************************************************************************)
(* C13: a list is decoded element by element, in the engine's order and    *)
(* with the same nesting; when an element at any depth is an error or has  *)
(* an unknown type code, the decoding of the whole list raises and no list *)
(* is returned.                                                            *)
(***************************************************************************)
C13_ListAllOrNothing ==
    (Retrieved /\ ResultFrame.rt = 6) =>
        IF Decodable(ResultFrame)
        THEN /\ result.exc = NoExc
             /\ Decodes(result.val, ResultFrame)
        ELSE /\ result.exc.type = "Exception"
             /\ result.val = None

\* a list that holds an error two lists deep, after elements that decode
C13_Witness ==
    /\ Retrieved
    /\ ResultFrame = MvNested(2, MvError("bad parameter"))
    /\ result.exc = [type |-> "Exception", msg |-> "Metview error: bad parameter"]
    /\ result.val = None


\* a == b in the host language: numbers by value, sequences of the same
\* type element by element, mappings key by key, Requests with their verb
RECURSIVE PyEq(_, _)
PyEq(a, b) ==
    IF IsInt(a) \/ a.kind = "float"
    THEN (IsInt(b) \/ b.kind = "float") /\ NumberOf(a) = NumberOf(b)
    ELSE IF a.kind \in {"list", "tuple"}
    THEN /\ b.kind = a.kind
         /\ Len(b.elems) = Len(a.elems)
         /\ \A j \in 1..Len(a.elems) : PyEq(a.elems[j], b.elems[j])
    ELSE IF IsDict(a)
    THEN /\ IsDict(b)
         /\ Len(b.items) = Len(a.items)
         /\ \A i \in 1..Len(a.items) : \E j \in 1..Len(b.items) :
              /\ a.items[i].k = b.items[j].k
              /\ PyEq(a.items[i].v, b.items[j].v)
         /\ (a.kind = "Request" /\ b.kind = "Request") => a.verb = b.verb
    ELSE a = b

\* the last call was of one argument and the engine returned the frame pushed
Echoed ==
    /\ Invoked
    /\ Retrieved
    /\ Len(call.args) = 1
    /\ call.kwargs = <<>>
    /\ ResultFrame = Invocation.stack[Len(Invocation.stack)]

(***************************************************************************)
(* C14: when the engine returns the very value a supported argument was    *)
(* encoded to, the value decoded equals the argument: numbers, strings,    *)
(* lists with their order and nesting, Requests with keys, values, verb.   *)
(***************************************************************************)
C14_RoundTrip ==
    (Echoed /\ call.args[1].kind \in {"int", "float", "str", "list", "Request"}) =>
        /\ result.exc = NoExc
        /\ PyEq(result.val, call.args[1])


\* the kinds of the values in v that push_arg has no branch for
RECURSIVE UnsupportedKinds(_)
UnsupportedKinds(v) ==
    IF v.kind \in {"list", "tuple"}
    THEN UNION { UnsupportedKinds(v.elems[j]) : j \in 1..Len(v.elems) }
    ELSE IF v.kind = "Request" /\ v.val_pointer # None THEN {}
    ELSE IF IsDict(v)
    THEN UNION { UnsupportedKinds(v.items[j].v) : j \in 1..Len(v.items) }
    ELSE IF IsInt(v) \/ v.kind \in {"float", "str"} \/ IsFileBacked(v) THEN {}
    ELSE {v.kind}

\* those of all the arguments of the last call
CallUnsupported ==
    UNION ({ UnsupportedKinds(call.args[j]) : j \in 1..Len(call.args) }
           \cup { UnsupportedKinds(call.kwargs[j].v) : j \in 1..Len(call.kwargs) })

(***************************************************************************)
(* C15: when an argument of a call, or a value inside it at any depth, is  *)
(* of a kind push_arg cannot encode, the call raises TypeError naming that *)
(* kind, the engine function is not invoked and no result is retrieved;    *)
(* a call with none such raises no TypeError and is invoked.               *)
(***************************************************************************)
C15_EncodingFailureFatal ==
    call # NoCall =>
        IF CallUnsupported # {}
        THEN /\ result.exc.type = "TypeError"
             /\ result.exc.kind \in CallUnsupported
             /\ result.val = None
             /\ ~Invoked
             /\ ~Retrieved
        ELSE /\ result.exc.type # "TypeError"
             /\ Invoked
             /\ Retrieved

\* a value that cannot be encoded sits MaxDepth lists deep in the argument
C15_Witness ==
    /\ call.args = <<BadList(MaxDepth)>>
    /\ result.exc = [type |-> "TypeError", kind |-> "object"]
    /\ ~Invoked
    /\ Len(ffi) > 0


(***************************************************************************)
(* C16: in a spawned session whose handshake completed, every run of       *)
(* destroy looks EVENT_PID up in the info section and sends the signal to  *)
(* that process, and when the signal cannot be delivered the exception     *)
(* leaves destroy: it is not swallowed.                                    *)
(***************************************************************************)
C16_TeardownFailureRaised ==
    /\ [][ ( /\ ~persistent_session
             /\ handshake
             /\ destroy_calls' # destroy_calls \/ (pc' = "exited" /\ atexit_registered) )
           => IF "EVENT_PID" \in info_section
              THEN kill_attempts' = kill_attempts + 1
              ELSE error' = "KeyError" /\ kill_attempts' = kill_attempts ]_vars
    /\ [][ (kill_attempts' # kill_attempts)
           => /\ "EVENT_PID" \in info_section
              /\ IF kills' = kills THEN error' = "kill_failed"
                 ELSE kills' = kills + 1 /\ error' = "none" ]_vars

\* the script called destroy and the signal could not be delivered
C16_Witness ==
    /\ ~persistent_session
    /\ handshake
    /\ destroy_calls = 1
    /\ kill_attempts = 1
    /\ kills = 0
    /\ error = "kill_failed"

(***************************************************************************)
(* C17: a call leaves the values it was passed as they were: numbers,      *)
(* strings, lists and tuples, dicts, Requests and file-backed values,      *)
(* positional or keyword.  A dict that holds booleans still holds them:    *)
(* the Request it is pushed as is a copy, and the conversion to "on" and   *)
(* "off" changes the copy.  A Request keeps its items, verb and handle.    *)
(***************************************************************************)
C17_EncodeLeavesInput ==
    /\ [](call # NoCall =>
            /\ call.args_after = call.args
            /\ call.kwargs_after = call.kwargs)
    /\ [][call' # call => held' = held]_vars

\* a dict that holds a boolean was passed, and pushed as a Request
C17_Witness ==
    /\ Invoked
    /\ call.args = <<PyDict(<<Item("a", PyBool(TRUE))>>)>>
    /\ call.args_after[1].items[1].v = PyBool(TRUE)
    /\ Invocation.stack[Len(Invocation.stack)].req.params[1].value
           = MvString(encode("on"))

\* the foreign calls the encoder makes, and those the decoder makes
EncoderCalls == Pushes \cup Pops \cup {"p_new_list", "p_new_request"}

DecoderCalls ==
    {"p_value_type", "p_value_as_number", "p_value_as_string", "p_value_as_request",
     "p_value_as_list", "p_list_count", "p_list_element_as_value", "p_error_message",
     "p_data_path", "p_get_req_verb", "p_get_req_num_params", "p_get_req_param",
     "p_get_req_value"}

C19_NoStackResidue ==
    /\ stack = <<>>
    /\ call.base = <<>>
    /\ Invoked => Len(Invocation.stack) = Invocation.nargs

(***************************************************************************)
(* C20: no readiness signal is lost.  The SIGUSR1 handler is installed     *)
(* before the engine is launched; a signal the engine sends while __init__ *)
(* is in the wait loop or between the loop and the test of line 64 sets    *)
(* metview_replied and leaves __init__ where it was; __init__ raises the   *)
(* startup timeout only if no signal was delivered up to that test; and    *)
(* once the signal is recorded during the wait, __init__ goes on to read   *)
(* the settings file.                                                      *)
(***************************************************************************)
C20_NoLostSignal ==
    /\ [](engine # "none" => handler)
    /\ [][(engine = "written" /\ engine' = "ready" /\ pc \in {"wait", "check"})
            => (metview_replied' /\ pc' = pc /\ error' = error)]_vars
    /\ [][(pc = "check" /\ pc' = "import_failed")
            => (engine # "ready" /\ ~metview_replied)]_vars
    /\ ((pc \in {"wait", "check"} /\ metview_replied) ~> (pc = "read" /\ handshake))

\* the signal arrived after the loop had run into the timeout and before
\* the test of line 64
C20_Witness ==
    /\ pc = "check"
    /\ engine = "ready"
    /\ metview_replied
    /\ now - wait_start >= metview_startup_timeout
    /\ error = "none"

====
